---- MODULE Spec2Model ----
(***************************************************************************)
(* parse_product_text (src/main.py) as a state machine.                    *)
(*                                                                         *)
(* A text is a TLA+ string; Chars(text) is its tuple of one-character      *)
(* strings.  The regular expressions of the source are kept as data (a     *)
(* sequence of nodes) and matched by a backtracking matcher that follows   *)
(* the priority order of Python's re module: alternatives left to right,   *)
(* greedy repetitions longest first, lazy repetitions shortest first, and  *)
(* re.search returning the match at the leftmost start position.           *)
(***************************************************************************)
EXTENDS Integers, Sequences, FiniteSets, TLC

VARIABLES text, pc, idx, data, form, prs, images, product, products, response

vars == <<text, pc, idx, data, form, prs, images, product, products, response>>

(***************************************************************************)
(* Characters and strings                                                  *)
(***************************************************************************)
Chars(str) == [i \in 1..Len(str) |-> SubSeq(str, i, i)]

Range(f) == {f[i] : i \in DOMAIN f}

MinOf(S) == CHOOSE x \in S : \A y \in S : x <= y

MaxOf(S) == CHOOSE x \in S : \A y \in S : y <= x

UpperChars == Chars("ABCDEFGHIJKLMNOPQRSTUVWXYZ")

LowerChars == Chars("abcdefghijklmnopqrstuvwxyz")

Letters == Range(UpperChars) \cup Range(LowerChars)

Digits == Range(Chars("0123456789"))

\* \s of the re module and the characters str.strip() removes
Whitespace == {" ", "\t", "\n", "\r", "\f"}

\* \w of the re module (the side of a \b word boundary)
WordChars == Letters \cup Digits \cup {"_"}

LowerOf == [c \in Range(UpperChars) |-> LowerChars[CHOOSE i \in 1..Len(UpperChars) : UpperChars[i] = c]]

UpperOf == [c \in Range(LowerChars) |-> UpperChars[CHOOSE i \in 1..Len(LowerChars) : LowerChars[i] = c]]

LowerChar(c) == IF c \in DOMAIN LowerOf THEN LowerOf[c] ELSE c

UpperChar(c) == IF c \in DOMAIN UpperOf THEN UpperOf[c] ELSE c

RECURSIVE Concat(_)
\* ''.join(parts) of a short sequence of strings
Concat(parts) == IF parts = <<>> THEN "" ELSE Head(parts) \o Concat(Tail(parts))

RECURSIVE JoinWith(_, _)
\* sep.join(parts)
JoinWith(sep, parts) ==
    IF parts = <<>> THEN ""
    ELSE IF Len(parts) = 1 THEN parts[1]
    ELSE parts[1] \o sep \o JoinWith(sep, Tail(parts))

\* str.lower(), character by character
Lower(str) ==
    LET s == Chars(str)
        low == [i \in 1..Len(s) |-> LowerChar(s[i])]
        \* the string is rebuilt in blocks so that no recursion is as deep as the text is long
        Block(a, b) == Concat(SubSeq(low, a, b))
        nb == (Len(s) + 15) \div 16
    IN  Concat([k \in 1..nb |-> Block(16 * (k - 1) + 1, IF 16 * k < Len(s) THEN 16 * k ELSE Len(s))])

\* str.strip()
Strip(str) ==
    LET s == Chars(str)
        keep == {i \in 1..Len(s) : s[i] \notin Whitespace}
    IN  IF keep = {} THEN "" ELSE SubSeq(str, MinOf(keep), MaxOf(keep))

\* str.split('\n')
Split(str) ==
    LET s == Chars(str)
        nl == {i \in 1..Len(s) : s[i] = "\n"}
        \* cut[k] is the position of the k-th line break; 0 and Len+1 close the ends
        Cut(k) == IF k = 0 THEN 0
                  ELSE IF k = Cardinality(nl) + 1 THEN Len(s) + 1
                  ELSE CHOOSE p \in nl : Cardinality({q \in nl : q < p}) = k - 1
    IN  [k \in 1..(Cardinality(nl) + 1) |-> SubSeq(str, Cut(k - 1) + 1, Cut(k) - 1)]

\* str[:n]
Prefix(str, n) == SubSeq(str, 1, IF Len(str) < n THEN Len(str) ELSE n)

\* str.startswith(p), ignoring case
StartsWithNoCase(str, p) ==
    /\ Len(str) >= Len(p)
    /\ Lower(SubSeq(str, 1, Len(p))) = Lower(p)

(***************************************************************************)
(* Regular expressions                                                     *)
(*                                                                         *)
(* A pattern is a sequence of nodes:                                       *)
(*   Lit(w)            the literal word w                                  *)
(*   Rep(cl, lo, hi, greedy)  lo..hi characters of class cl (hi = -1: no   *)
(*                     upper limit), longest first when greedy             *)
(*   Alt(<<p1, p2..>>) the first of the patterns p1, p2.. that lets the    *)
(*                     rest of the pattern match                           *)
(*   GroupOpen, GroupClose   the ends of capture group 1                   *)
(*   EndOfString       $ (the end, or just before a final line break)      *)
(*   WordBoundary      \b                                                  *)
(* A class is [neg, cs]: the characters of cs, or all the others.          *)
(***************************************************************************)
Class(cs) == [neg |-> FALSE, cs |-> cs]

NotClass(cs) == [neg |-> TRUE, cs |-> cs]

Lit(w) == [t |-> "lit", w |-> Chars(w)]

Rep(cl, lo, hi, greedy) == [t |-> "rep", cl |-> cl, lo |-> lo, hi |-> hi, greedy |-> greedy]

Alt(opts) == [t |-> "alt", opts |-> opts]

GroupOpen == [t |-> "open"]

GroupClose == [t |-> "close"]

EndOfString == [t |-> "eos"]

WordBoundary == [t |-> "wb"]

\* x? for a pattern x: x first, nothing second
Optional(p) == Alt(<<p, <<>>>>)

NoMatch == [ok |-> FALSE, cs |-> 0, ce |-> 0, e |-> 0]

\* c is in class cl; with re.IGNORECASE also when its other case is
InClass(c, cl, ic) ==
    cl.neg # (c \in cl.cs \/ (ic /\ (LowerChar(c) \in cl.cs \/ UpperChar(c) \in cl.cs)))

\* the literal w stands at position i of s
LitAt(s, ic, w, i) ==
    /\ i + Len(w) - 1 <= Len(s)
    /\ \A k \in 1..Len(w) :
          IF ic THEN LowerChar(s[i + k - 1]) = LowerChar(w[k]) ELSE s[i + k - 1] = w[k]

\* run characters stand at i, of which a repetition takes at most hi
AtMost(run, hi) == IF hi >= 0 /\ run > hi THEN hi ELSE run

\* how many characters of class n.cl stand at position i of s, at most n.hi
RunLength(s, ic, n, i) ==
    AtMost((CHOOSE j \in i..(Len(s) + 1) :
                /\ j = Len(s) + 1 \/ ~InClass(s[j], n.cl, ic)
                /\ \A k \in i..(j - 1) : InClass(s[k], n.cl, ic)) - i, n.hi)

IsWordAt(s, i) == i >= 1 /\ i <= Len(s) /\ s[i] \in WordChars

\* the first of two attempts that matched
Prefer(first, second) == IF first.ok THEN first ELSE second

RECURSIVE MatchAt(_, _, _, _, _, _)
RECURSIVE FirstOption(_, _, _, _, _, _, _, _)
RECURSIVE FirstCount(_, _, _, _, _, _, _, _, _)
\* The first match, in the re module's priority order, of the pattern `nodes`
\* at position i of s; gs and ge are the ends of group 1 so far.
\* [ok, cs, ce, e]: group 1 is s[cs..ce-1], the match ends before e.
MatchAt(s, ic, nodes, i, gs, ge) ==
    IF nodes = <<>> THEN [ok |-> TRUE, cs |-> gs, ce |-> ge, e |-> i]
    ELSE
      LET n == Head(nodes)
          rest == Tail(nodes)
      IN  CASE n.t = "lit" ->
                 IF LitAt(s, ic, n.w, i) THEN MatchAt(s, ic, rest, i + Len(n.w), gs, ge)
                 ELSE NoMatch
            [] n.t = "rep" ->
                 FirstCount(s, ic, n.greedy, rest, i, n.lo, RunLength(s, ic, n, i), gs, ge)
            [] n.t = "alt" -> FirstOption(s, ic, n.opts, 1, rest, i, gs, ge)
            [] n.t = "open" -> MatchAt(s, ic, rest, i, i, ge)
            [] n.t = "close" -> MatchAt(s, ic, rest, i, gs, i)
            [] n.t = "eos" ->
                 IF i = Len(s) + 1 \/ (i = Len(s) /\ s[i] = "\n")
                 THEN MatchAt(s, ic, rest, i, gs, ge)
                 ELSE NoMatch
            [] n.t = "wb" ->
                 IF IsWordAt(s, i - 1) # IsWordAt(s, i)
                 THEN MatchAt(s, ic, rest, i, gs, ge)
                 ELSE NoMatch

\* the options of an alternation in turn; an option that opens with a literal
\* which does not stand at i is passed over at once
FirstOption(s, ic, opts, k, rest, i, gs, ge) ==
    IF k > Len(opts) THEN NoMatch
    ELSE IF opts[k] # <<>> /\ opts[k][1].t = "lit" /\ ~LitAt(s, ic, opts[k][1].w, i)
    THEN FirstOption(s, ic, opts, k + 1, rest, i, gs, ge)
    ELSE Prefer(MatchAt(s, ic, opts[k] \o rest, i, gs, ge),
                FirstOption(s, ic, opts, k + 1, rest, i, gs, ge))

\* a repetition that may take lo..hi characters at i (none when fewer than lo
\* stand there): the match of the rest after the first count that allows one,
\* counts taken from hi down when greedy and from lo up when lazy.  The range
\* is halved at each call, so the nesting stays shallow on long runs.
FirstCount(s, ic, greedy, rest, i, lo, hi, gs, ge) ==
    IF lo > hi THEN NoMatch
    ELSE IF lo = hi THEN MatchAt(s, ic, rest, i + lo, gs, ge)
    ELSE IF greedy
    THEN Prefer(FirstCount(s, ic, greedy, rest, i, (lo + hi) \div 2 + 1, hi, gs, ge),
                FirstCount(s, ic, greedy, rest, i, lo, (lo + hi) \div 2, gs, ge))
    ELSE Prefer(FirstCount(s, ic, greedy, rest, i, lo, (lo + hi) \div 2, gs, ge),
                FirstCount(s, ic, greedy, rest, i, (lo + hi) \div 2 + 1, hi, gs, ge))

\* the match m, found at position at
Located(m, at) == [ok |-> m.ok, cs |-> m.cs, ce |-> m.ce, e |-> m.e, start |-> at]

RECURSIVE FirstHit(_, _, _, _, _)
\* the match of the pattern at the leftmost position of lo..hi where it matches
FirstHit(s, ic, pattern, lo, hi) ==
    IF lo = hi THEN Located(MatchAt(s, ic, pattern, lo, 0, 0), lo)
    ELSE Prefer(FirstHit(s, ic, pattern, lo, (lo + hi) \div 2),
                FirstHit(s, ic, pattern, (lo + hi) \div 2 + 1, hi))

\* the match object of a search in str that ended as m
MatchObject(str, m) ==
    IF m.ok
    THEN [ok |-> TRUE, group1 |-> SubSeq(str, m.cs, m.ce - 1), start |-> m.start,
          gs |-> m.cs, ge |-> m.ce]
    ELSE [ok |-> FALSE, group1 |-> "", start |-> 0, gs |-> 0, ge |-> 0]

\* re.search(pattern, str, re.IGNORECASE if ic): the match at the leftmost
\* position where the pattern matches; group(1) is group1 = str[gs..ge-1]
Search(pattern, str, ic) ==
    MatchObject(str, FirstHit(Chars(str), ic, pattern, 1, Len(str) + 1))

\* re.match(pattern, str, re.IGNORECASE if ic): the pattern matches at the start
MatchStart(pattern, str, ic) == MatchAt(Chars(str), ic, pattern, 1, 0, 0).ok

(***************************************************************************)
(* The patterns of parse_product_text                                      *)
(***************************************************************************)
Space == Class(Whitespace)

Digit == Class(Digits)

\* \s*
Spaces == Rep(Space, 0, -1, TRUE)

\* [:=-]?
Separator == Rep(Class({":", "=", "-"}), 0, 1, TRUE)

\* rs\.?  as rs\. before rs
Rs == Alt(<< <<Lit("rs.")>>, <<Lit("rs")>> >>)

Rupee == Lit("₹")

\* ([\d,]+(?:\.\d{2})?)
Amount == <<GroupOpen, Rep(Class(Digits \cup {","}), 1, -1, TRUE),
            Optional(<<Lit("."), Rep(Digit, 2, 2, TRUE)>>), GroupClose>>

\* (?:price|rate|cost|rs\.?|₹)\s*[:=-]?\s*(?:rs\.?|₹)?\s*([\d,]+(?:\.\d{2})?)
PriceLabeled ==
    << Alt(<< <<Lit("price")>>, <<Lit("rate")>>, <<Lit("cost")>>, <<Rs>>, <<Rupee>> >>),
       Spaces, Separator, Spaces,
       Optional(<<Alt(<< <<Rs>>, <<Rupee>> >>)>>),
       Spaces >> \o Amount

\* (?:rs\.?|₹)\s*([\d,]+(?:\.\d{2})?)
PriceBare == << Alt(<< <<Rs>>, <<Rupee>> >>), Spaces >> \o Amount

price_patterns == <<PriceLabeled, PriceBare>>

\* (?:sku|item\s*code|product\s*code|code)\s*[:=-]?\s*([A-Z0-9-]+)
SkuLabeled ==
    << Alt(<< <<Lit("sku")>>,
              <<Lit("item"), Spaces, Lit("code")>>,
              <<Lit("product"), Spaces, Lit("code")>>,
              <<Lit("code")>> >>),
       Spaces, Separator, Spaces,
       GroupOpen, Rep(Class(Range(UpperChars) \cup Digits \cup {"-"}), 1, -1, TRUE), GroupClose >>

\* \b([A-Z]{2,}\d{3,})\b
SkuBare ==
    << WordBoundary, GroupOpen, Rep(Class(Range(UpperChars)), 2, -1, TRUE),
       Rep(Digit, 3, -1, TRUE), GroupClose, WordBoundary >>

sku_patterns == <<SkuLabeled, SkuBare>>

\* (.+?)(?:\n|$)
RestOfLine ==
    << GroupOpen, Rep(NotClass({"\n"}), 1, -1, FALSE), GroupClose,
       Alt(<< <<Lit("\n")>>, <<EndOfString>> >>) >>

\* (?:size|dimension|dimensions|measurements?)\s*[:=-]?\s*(.+?)(?:\n|$)
DimLabeled ==
    << Alt(<< <<Lit("size")>>, <<Lit("dimension")>>, <<Lit("dimensions")>>,
              <<Lit("measurement"), Optional(<<Lit("s")>>)>> >>),
       Spaces, Separator, Spaces >> \o RestOfLine

\* [xX×]
Times == Class({"x", "X", "×"})

\* (\d+\s*[xX×]\s*\d+\s*[xX×]?\s*\d*)\s*(?:cm|mm|inch|ft|m)
DimBare ==
    << GroupOpen, Rep(Digit, 1, -1, TRUE), Spaces, Rep(Times, 1, 1, TRUE), Spaces,
       Rep(Digit, 1, -1, TRUE), Spaces, Rep(Times, 0, 1, TRUE), Spaces,
       Rep(Digit, 0, -1, TRUE), GroupClose, Spaces,
       Alt(<< <<Lit("cm")>>, <<Lit("mm")>>, <<Lit("inch")>>, <<Lit("ft")>>, <<Lit("m")>> >>) >>

\* dim_patterns with the bare pattern listed first
DimPatternsBareFirst == <<DimBare, DimLabeled>>

dim_patterns == <<DimLabeled, DimBare>>

\* (?:material|made\s*of)\s*[:=-]?\s*(.+?)(?:\n|$)
MaterialLabeled ==
    << Alt(<< <<Lit("material")>>, <<Lit("made"), Spaces, Lit("of")>> >>),
       Spaces, Separator, Spaces >> \o RestOfLine

material_patterns == <<MaterialLabeled>>

\* (?:stock|quantity|qty|available)\s*[:=-]?\s*(\d+)
StockLabeled ==
    << Alt(<< <<Lit("stock")>>, <<Lit("quantity")>>, <<Lit("qty")>>, <<Lit("available")>> >>),
       Spaces, Separator, Spaces,
       GroupOpen, Rep(Digit, 1, -1, TRUE), GroupClose >>

stock_patterns == <<StockLabeled>>

\* (?:desc|description)\s*[:=-]?\s*(.+?)(?:\n\n|$)   under re.DOTALL
DescLabeled ==
    << Alt(<< <<Lit("desc")>>, <<Lit("description")>> >>),
       Spaces, Separator, Spaces,
       GroupOpen, Rep(NotClass({}), 1, -1, FALSE), GroupClose,
       Alt(<< <<Lit("\n\n")>>, <<EndOfString>> >>) >>

desc_patterns == <<DescLabeled>>

\* ^(price|sku|size|material|stock)
DescSkipLabels ==
    << Alt(<< <<Lit("price")>>, <<Lit("sku")>>, <<Lit("size")>>, <<Lit("material")>>,
              <<Lit("stock")>> >>) >>

\* ^(price|sku|size|material|stock|desc)
NameSkipLabels ==
    << Alt(<< <<Lit("price")>>, <<Lit("sku")>>, <<Lit("size")>>, <<Lit("material")>>,
              <<Lit("stock")>>, <<Lit("desc")>> >>) >>


(***************************************************************************)
(* Conversions                                                             *)
(***************************************************************************)
DigitChars == Chars("0123456789")

DigitValue(c) == (CHOOSE i \in 1..Len(DigitChars) : DigitChars[i] = c) - 1

IsDigits(s) == \A i \in 1..Len(s) : s[i] \in Digits

RECURSIVE NatOf(_)
\* the number a tuple of decimal digits writes
NatOf(s) == IF s = <<>> THEN 0 ELSE 10 * NatOf(SubSeq(s, 1, Len(s) - 1)) + DigitValue(s[Len(s)])

\* str.replace(ch, '')
Remove(str, ch) == Concat(SelectSeq(Chars(str), LAMBDA c : c # ch))

\* float(str) for a text of digits and dots: ValueError ([ok |-> FALSE]) unless
\* it reads digits[.digits] with a digit somewhere.  The value is kept in
\* hundredths, which is exact for every capture of the price patterns (they
\* take no or two decimals).
ToFloat(str) ==
    LET s == Chars(str)
        dots == {i \in 1..Len(s) : s[i] = "."}
        whole == IF dots = {} THEN s ELSE SubSeq(s, 1, MinOf(dots) - 1)
        frac == IF dots = {} THEN <<>> ELSE SubSeq(s, MinOf(dots) + 1, Len(s))
        cents == IF Len(frac) = 0 THEN 0
                 ELSE IF Len(frac) = 1 THEN 10 * DigitValue(frac[1])
                 ELSE 10 * DigitValue(frac[1]) + DigitValue(frac[2])
        ok == IsDigits(whole) /\ IsDigits(frac) /\ Len(whole) + Len(frac) > 0
    IN  [ok |-> ok, val |-> IF ok THEN 100 * NatOf(whole) + cents ELSE 0]

\* int(str): ValueError unless str is a non-empty run of digits
ToInt(str) ==
    LET s == Chars(str)
        ok == Len(s) > 0 /\ IsDigits(s)
    IN  [ok |-> ok, val |-> IF ok THEN NatOf(s) ELSE 0]

(***************************************************************************)
(* parse_product_text, one step at a time.  A step maps the text, the      *)
(* index i of the pattern the running loop is at and the dictionary d to   *)
(* the next position [pc, idx] and dictionary [data].                        *)
(***************************************************************************)
\* data = {...}
Defaults ==
    [name |-> "", description |-> "", price |-> 0, stock |-> 0, sku |-> "",
     dimensions |-> "", material |-> "", specifications |-> ""]

Goto(p, d) == [pc |-> p, idx |-> 1, data |-> d]

NextPattern(p, i, d) == [pc |-> p, idx |-> i + 1, data |-> d]

\* Enter with the empty text answered by an empty mapping (return {})
EnterReturnsNothing(t, d) == IF t = "" THEN Goto("done", <<>>) ELSE Goto("price", d)

\* if not text: return data
Enter(t, d) == IF t = "" THEN Goto("done", d) ELSE Goto("price", d)

\* PriceNotANumber without the except clause: the ValueError leaves the call
PriceNotANumberRaises(i, d) == [pc |-> "raised", idx |-> i, data |-> d]

\* what the price loop does when float() raises: except: pass
PriceNotANumber(i, d) == NextPattern("price", i, d)

\* price = float(...); data['price'] = price; break, or the except clause
PriceConverted(price, i, d) ==
    IF price.ok THEN Goto("sku", [d EXCEPT !.price = price.val])
    ELSE PriceNotANumber(i, d)

\* if match: price_str = match.group(1).replace(',', '')
PriceMatched(match, i, d) ==
    IF match.ok THEN PriceConverted(ToFloat(Remove(match.group1, ",")), i, d)
    ELSE NextPattern("price", i, d)

\* one turn of: for pattern in price_patterns
PriceStep(t, i, d) ==
    IF i > Len(price_patterns) THEN Goto("sku", d)
    ELSE PriceMatched(Search(price_patterns[i], Lower(t), FALSE), i, d)

\* if match: data['sku'] = match.group(1).strip(); break
SkuMatched(match, i, d) ==
    IF match.ok THEN Goto("dimensions", [d EXCEPT !.sku = Strip(match.group1)])
    ELSE NextPattern("sku", i, d)

\* one turn of: for pattern in sku_patterns
SkuStep(t, i, d) ==
    IF i > Len(sku_patterns) THEN Goto("dimensions", d)
    ELSE SkuMatched(Search(sku_patterns[i], t, TRUE), i, d)

\* if match: data['dimensions'] = match.group(1).strip(); break
DimMatched(match, i, d) ==
    IF match.ok THEN Goto("material", [d EXCEPT !.dimensions = Strip(match.group1)])
    ELSE NextPattern("dimensions", i, d)

\* one turn of: for pattern in dim_patterns
DimStep(t, i, d) ==
    IF i > Len(dim_patterns) THEN Goto("material", d)
    ELSE DimMatched(Search(dim_patterns[i], t, TRUE), i, d)

\* if match: data['material'] = match.group(1).strip(); break
MaterialMatched(match, i, d) ==
    IF match.ok THEN Goto("stock", [d EXCEPT !.material = Strip(match.group1)])
    ELSE NextPattern("material", i, d)

\* one turn of: for pattern in material_patterns
MaterialStep(t, i, d) ==
    IF i > Len(material_patterns) THEN Goto("stock", d)
    ELSE MaterialMatched(Search(material_patterns[i], t, TRUE), i, d)

\* data['stock'] = int(match.group(1)); break, or the except clause
StockConverted(stock, i, d) ==
    IF stock.ok THEN Goto("description", [d EXCEPT !.stock = stock.val])
    ELSE NextPattern("stock", i, d)

\* if match: try: ...
StockMatched(match, i, d) ==
    IF match.ok THEN StockConverted(ToInt(match.group1), i, d)
    ELSE NextPattern("stock", i, d)

\* one turn of: for pattern in stock_patterns
StockStep(t, i, d) ==
    IF i > Len(stock_patterns) THEN Goto("description", d)
    ELSE StockMatched(Search(stock_patterns[i], Lower(t), FALSE), i, d)

\* if match: data['description'] = match.group(1).strip(); break
DescMatched(match, i, d) ==
    IF match.ok THEN Goto("early_lines", [d EXCEPT !.description = Strip(match.group1)])
    ELSE NextPattern("description", i, d)

\* one turn of: for pattern in desc_patterns
DescStep(t, i, d) ==
    IF i > Len(desc_patterns) THEN Goto("early_lines", d)
    ELSE DescMatched(Search(desc_patterns[i], t, TRUE), i, d)

\* HasEarlyLines without the test on the number of lines
HasEarlyLinesAlways(lines) == Len(lines) > 0

\* len(lines) > 1
HasEarlyLines(lines) == Len(lines) > 1

\* lines[:5]
EarlyLines(lines) == SubSeq(lines, 1, IF Len(lines) < 5 THEN Len(lines) ELSE 5)

\* len(line) > 15 and not re.match(r'^(price|sku|size|material|stock)', line, re.IGNORECASE)
IsDescLine(line) == Len(line) > 15 /\ ~MatchStart(DescSkipLabels, line, TRUE)

\* line = line.strip() for each of the early lines
Stripped(early) == [j \in 1..Len(early) |-> Strip(early[j])]

\* if desc_lines: data['description'] = ' '.join(desc_lines)[:500]
Described(desc_lines, d) ==
    IF desc_lines # <<>>
    THEN Goto("name", [d EXCEPT !.description = Prefix(JoinWith(" ", desc_lines), 500)])
    ELSE Goto("name", d)

\* if not data['description'] and len(lines) > 1: the early lines that qualify
EarlyLinesFrom(lines, d) ==
    IF d.description = "" /\ HasEarlyLines(lines)
    THEN Described(SelectSeq(Stripped(EarlyLines(lines)), IsDescLine), d)
    ELSE Goto("name", d)

\* the synthesis of the description from the lines of the text
EarlyLinesStep(t, d) == EarlyLinesFrom(Split(t), d)

\* IsNameLength with both limits included
IsNameLengthInclusive(n) == n >= 3 /\ n <= 100

\* len(first_line) > 3 and len(first_line) < 100
IsNameLength(n) == n > 3 /\ n < 100

\* data['name'] = first_line when it qualifies
Named(first_line, d) ==
    IF IsNameLength(Len(first_line)) /\ ~MatchStart(NameSkipLabels, first_line, TRUE)
    THEN Goto("specs", [d EXCEPT !.name = first_line])
    ELSE Goto("specs", d)

\* first_line = lines[0].strip()
NameStep(t, d) == Named(Strip(Split(t)[1]), d)

\* SpecsStep with the material put before the dimensions
SpecsStepMaterialFirst(d) ==
    LET dims == IF d.dimensions # "" THEN <<"Dimensions: " \o d.dimensions>> ELSE <<>>
        mat == IF d.material # "" THEN <<"Material: " \o d.material>> ELSE <<>>
        specs == mat \o dims
    IN  IF specs # <<>> THEN Goto("done", [d EXCEPT !.specifications = JoinWith("; ", specs)])
        ELSE Goto("done", d)

\* specs = [...]; data['specifications'] = '; '.join(specs)
SpecsStep(d) ==
    LET dims == IF d.dimensions # "" THEN <<"Dimensions: " \o d.dimensions>> ELSE <<>>
        mat == IF d.material # "" THEN <<"Material: " \o d.material>> ELSE <<>>
        specs == dims \o mat
    IN  IF specs # <<>> THEN Goto("done", [d EXCEPT !.specifications = JoinWith("; ", specs)])
        ELSE Goto("done", d)


(***************************************************************************)
(* The input texts.  Short texts are all the texts of at most MaxLines     *)
(* lines drawn from Fragments; tall texts have up to MaxTall lines that    *)
(* all qualify as description lines; wide texts bring a line to the        *)
(* lengths at which the name and the description change behaviour.         *)
(***************************************************************************)
MaxLines == 2

MaxTall == 6

Fragments ==
    { "", "Cot", "Sofa", " Armchair ", "SKU: ABC123", "ab123 stool",
      "Price: ,", "Rs. 20.50", "Cost: 4,500", "Size: ", "10x20 cm",
      "Material:", "Material: Oak", "Desc: soft seat",
      "Hand made in UK", "Solid frame, 2 drawers", "Stock: 12 units in depot" }

RECURSIVE LineSeqs(_)
\* the sequences of at most n fragments
LineSeqs(n) ==
    IF n = 0 THEN {<<>>}
    ELSE LET shorter == LineSeqs(n - 1)
         IN  shorter \cup {Append(ls, f) : ls \in {x \in shorter : Len(x) = n - 1}, f \in Fragments}

ShortTexts == {JoinWith("\n", ls) : ls \in LineSeqs(MaxLines)}

NumberedLine(j) == "feature " \o DigitChars[j + 1] \o " of the item"

TallTexts == {JoinWith("\n", [j \in 1..n |-> NumberedLine(j)]) : n \in 1..MaxTall}

RECURSIVE Repeat(_, _)
\* str * n
Repeat(str, n) ==
    IF n = 0 THEN ""
    ELSE LET half == Repeat(str, n \div 2)
         IN  half \o half \o (IF n % 2 = 1 THEN str ELSE "")

\* a line of n characters without white space
Filler(n) == Prefix(Repeat("oak-table.", n), n)

WideTexts ==
    {before \o label \o Filler(n) :
        before \in {"", "Sofa\n"}, label \in {"", "Desc: "}, n \in {99, 100, 500, 501}}

Inputs == ShortTexts \cup TallTexts \cup WideTexts

\* the whole call as a function: the steps in the order the code runs them
Step(t, st) ==
    CASE st.pc = "entry" -> Enter(t, st.data)
      [] st.pc = "price" -> PriceStep(t, st.idx, st.data)
      [] st.pc = "sku" -> SkuStep(t, st.idx, st.data)
      [] st.pc = "dimensions" -> DimStep(t, st.idx, st.data)
      [] st.pc = "material" -> MaterialStep(t, st.idx, st.data)
      [] st.pc = "stock" -> StockStep(t, st.idx, st.data)
      [] st.pc = "description" -> DescStep(t, st.idx, st.data)
      [] st.pc = "early_lines" -> EarlyLinesStep(t, st.data)
      [] st.pc = "name" -> NameStep(t, st.data)
      [] st.pc = "specs" -> SpecsStep(st.data)

RECURSIVE Run(_, _)
\* the call from position st to its return or to the exception that ends it
Run(t, st) == IF st.pc \in {"done", "raised"} THEN st ELSE Run(t, Step(t, st))

(***************************************************************************)
(* import_pptx: one upload of a deck.  A deck (prs) is the sequence of its *)
(* slides, a slide the sequence of its shapes.  A text shape has the       *)
(* attribute text, a picture the attribute image with an extension and a   *)
(* blob.                                                                   *)
(***************************************************************************)
MaxSlides == 2

\* the Python value None, and a value that is not None
None == [none |-> TRUE]

Some(v) == [none |-> FALSE, v |-> v]

TextShape(t) == [has_text |-> TRUE, text |-> t, has_image |-> FALSE, ext |-> "", blob |-> ""]

Picture(ext, blob) == [has_text |-> FALSE, text |-> "", has_image |-> TRUE, ext |-> ext, blob |-> blob]

\* str.endswith(suffix)
EndsWith(str, suffix) ==
    /\ Len(str) >= Len(suffix)
    /\ SubSeq(str, Len(str) - Len(suffix) + 1, Len(str)) = suffix

RECURSIVE StrOf(_)
\* str(n) of a natural number
StrOf(n) == IF n < 10 THEN DigitChars[n + 1] ELSE StrOf(n \div 10) \o DigitChars[(n % 10) + 1]

\* characters that str.isdigit() accepts and int() rejects
DigitsNotDecimal == {"²"}

\* str.isdigit()
Isdigit(str) ==
    /\ str # ""
    /\ \A i \in 1..Len(str) : SubSeq(str, i, i) \in Digits \cup DigitsNotDecimal

\* hasattr(shape, "text") and shape.text.strip()
HasVisibleText(shape) == shape.has_text /\ Strip(shape.text) # ""

\* shape.text.strip()
StrippedText(shape) == Strip(shape.text)

\* all_text of a slide, joined: full_text = "\n".join(all_text)
FullText(slide) ==
    JoinWith("\n", [k \in 1..Len(SelectSeq(slide, HasVisibleText)) |->
                        StrippedText(SelectSeq(slide, HasVisibleText)[k])])

\* hasattr(shape, "image")
HasImage(shape) == shape.has_image

\* ext = img.ext or "png"
ExtOf(shape) == IF shape.ext # "" THEN shape.ext ELSE "png"

\* f"slide_{slide_num}_img_{len(images) + 1}_{uuid.uuid4().hex[:8]}.{ext}"
ImageName(slide_num, k, hex, ext) ==
    "slide_" \o StrOf(slide_num) \o "_img_" \o StrOf(k) \o "_" \o hex \o "." \o ext

\* base64.b64encode(img.blob).decode('utf-8'), kept as the encoding of the blob
Base64(blob) == <<"base64", blob>>

\* the images list of a slide whose pictures are pics, hexes[k] being the
\* random part of the k-th file name
ImagesOf(pics, slide_num, hexes) ==
    [k \in 1..Len(pics) |->
        [filename |-> ImageName(slide_num, k, hexes[k], ExtOf(pics[k])),
         data |-> Base64(pics[k].blob)]]

\* the call parse_product_text(full_text), from entry to return
parse_product_text(t) == Run(t, Goto("entry", Defaults)).data

\* ProductName without the positional names
ProductNameAsExtracted(name, imgs, slide_num) == name

\* if product_data.get('name'): ... elif images: ... else: ...
ProductName(name, imgs, slide_num) ==
    IF name # "" THEN name
    ELSE IF imgs # <<>> THEN "Product from Slide " \o StrOf(slide_num)
    ELSE "Product " \o StrOf(slide_num)

\* int(s) as the value of the field, or the ValueError
IntField(n) == [ok |-> n.ok, val |-> IF n.ok THEN Some(n.val) ELSE None]

\* int(subcategory_id) if subcategory_id and subcategory_id.isdigit() else None
SubcategoryOf(s) ==
    IF s.none THEN [ok |-> TRUE, val |-> None]
    ELSE IF s.v # "" /\ Isdigit(s.v) THEN IntField(ToInt(s.v))
    ELSE [ok |-> TRUE, val |-> None]

\* product = {...} and the handling of the images
ProductOf(d, imgs, slide_num, f, sub) ==
    [name |-> ProductName(d.name, imgs, slide_num),
     description |-> d.description,
     category_id |-> f.category_id,
     subcategory_id |-> sub,
     price |-> d.price,
     stock_quantity |-> d.stock,
     sku |-> d.sku,
     main_image |-> IF Len(imgs) > 0 THEN Some(imgs[1].filename) ELSE None,
     main_image_data |-> IF Len(imgs) > 0 THEN Some(imgs[1].data) ELSE None,
     gallery_images |-> IF Len(imgs) > 1 THEN Tail(imgs) ELSE <<>>,
     dimensions |-> d.dimensions,
     material |-> d.material,
     specifications |-> d.specifications]

\* if product['name'] or images
IsKept(p, imgs) == p.name # "" \/ imgs # <<>>

\* raise HTTPException(status, ...)
Refused(status) == [status |-> status, products |-> <<>>, total |-> 0]

\* return {"products": products, "total": len(products)}
Answer(ps) == [status |-> 200, products |-> ps, total |-> Len(ps)]

\* no answer yet
Pending == [status |-> 0, products |-> <<>>, total |-> 0]

(***************************************************************************)
(* The uploads: a form and a deck of at most MaxSlides slides              *)
(***************************************************************************)
Slides ==
    { <<>>,
      <<TextShape("Sofa")>>,
      <<TextShape("   "), Picture("", "b1")>>,
      <<TextShape("Cot"), TextShape("SKU: ABC123")>>,
      <<Picture("jpg", "b1"), TextShape(" Armchair "), Picture("png", "b2")>>,
      <<TextShape("Price: 10")>> }

RECURSIVE SlideSeqs(_)
\* the decks of at most n slides
SlideSeqs(n) ==
    IF n = 0 THEN {<<>>}
    ELSE {<<>>} \cup {<<s>> \o d : s \in Slides, d \in SlideSeqs(n - 1)}

Decks == SlideSeqs(MaxSlides)

Forms ==
    [filename : {"deck.pptx", "deck.ppt"},
     category_id : {0},
     subcategory_id : {None, Some("7"), Some("²"), Some("x")}]

\* the values uuid.uuid4().hex[:8] may take
Hexes == {"0a1b2c3d", "9f8e7d6c"}

NoForm == [filename |-> "", category_id |-> 0, subcategory_id |-> None]

\* no upload is in progress
NoUpload ==
    /\ form = NoForm
    /\ prs = <<>>
    /\ images = <<>>
    /\ product = None
    /\ products = <<>>
    /\ response = Pending

(***************************************************************************)
(* The state machine: one call of parse_product_text on one text           *)
(***************************************************************************)
Init ==
    /\ text \in Inputs
    /\ pc = "entry"
    /\ idx = 1
    /\ data = Defaults
    /\ NoUpload

Apply(r) ==
    /\ pc' = r.pc
    /\ idx' = r.idx
    /\ data' = r.data
    /\ UNCHANGED <<text, form, prs, images, product, products, response>>

Call == pc = "entry" /\ Apply(Enter(text, data))

ExtractPrice == pc = "price" /\ Apply(PriceStep(text, idx, data))

ExtractSku == pc = "sku" /\ Apply(SkuStep(text, idx, data))

ExtractDimensions == pc = "dimensions" /\ Apply(DimStep(text, idx, data))

ExtractMaterial == pc = "material" /\ Apply(MaterialStep(text, idx, data))

ExtractStock == pc = "stock" /\ Apply(StockStep(text, idx, data))

ExtractDescription == pc = "description" /\ Apply(DescStep(text, idx, data))

DescribeFromEarlyLines == pc = "early_lines" /\ Apply(EarlyLinesStep(text, data))

ExtractName == pc = "name" /\ Apply(NameStep(text, data))

CompileSpecifications == pc = "specs" /\ Apply(SpecsStep(data))

Next ==
    \/ Call
    \/ ExtractPrice
    \/ ExtractSku
    \/ ExtractDimensions
    \/ ExtractMaterial
    \/ ExtractStock
    \/ ExtractDescription
    \/ DescribeFromEarlyLines
    \/ ExtractName
    \/ CompileSpecifications

Spec == Init /\ [][Next]_vars

(***************************************************************************)
(* The state machine of import_pptx                                        *)
(***************************************************************************)
PptxInit ==
    /\ form \in Forms
    /\ prs \in Decks
    /\ pc = "upload"
    /\ idx = 1
    /\ text = ""
    /\ data = Defaults
    /\ images = <<>>
    /\ product = None
    /\ products = <<>>
    /\ response = Pending

\* if not file.filename.endswith('.pptx'): raise HTTPException(400, ...);
\* prs = Presentation(tmp_path); products = []
Upload ==
    /\ pc = "upload"
    /\ IF EndsWith(form.filename, ".pptx")
       THEN pc' = "slide" /\ UNCHANGED response
       ELSE pc' = "failed" /\ response' = Refused(400)
    /\ idx' = 1
    /\ products' = <<>>
    /\ UNCHANGED <<form, prs, text, data, images, product>>

\* for slide_num, slide in enumerate(prs.slides, 1): ... full_text
ReadText ==
    /\ pc = "slide"
    /\ idx <= Len(prs)
    /\ text' = FullText(prs[idx])
    /\ pc' = "images"
    /\ UNCHANGED <<form, prs, idx, data, images, product, products, response>>

\* images = [] and the loop that fills it
ReadImages ==
    /\ pc = "images"
    /\ \E hexes \in [1..Len(SelectSeq(prs[idx], HasImage)) -> Hexes] :
          images' = ImagesOf(SelectSeq(prs[idx], HasImage), idx, hexes)
    /\ pc' = "parse"
    /\ UNCHANGED <<form, prs, idx, text, data, product, products, response>>

\* product_data = parse_product_text(full_text)
ParseText ==
    /\ pc = "parse"
    /\ data' = parse_product_text(text)
    /\ pc' = "build"
    /\ UNCHANGED <<form, prs, idx, text, images, product, products, response>>

\* the product of the slide, or the HTTPException(500) of the except clause
\* when int(subcategory_id) raises
Built(sub) ==
    IF sub.ok
    THEN /\ product' = ProductOf(data, images, idx, form, sub.val)
         /\ pc' = "append"
         /\ UNCHANGED response
    ELSE /\ pc' = "failed"
         /\ response' = Refused(500)
         /\ UNCHANGED product

\* product_name = ...; product = {...}; if len(images) > 0: ...
BuildProduct ==
    /\ pc = "build"
    /\ Built(SubcategoryOf(form.subcategory_id))
    /\ UNCHANGED <<form, prs, idx, text, data, images, products>>

\* if product['name'] or images: products.append(product)
AppendProduct ==
    /\ pc = "append"
    /\ products' = IF IsKept(product, images) THEN Append(products, product) ELSE products
    /\ idx' = idx + 1
    /\ pc' = "slide"
    /\ UNCHANGED <<form, prs, text, data, images, product, response>>

\* return {"products": products, "total": len(products)}
Return ==
    /\ pc = "slide"
    /\ idx > Len(prs)
    /\ response' = Answer(products)
    /\ pc' = "returned"
    /\ UNCHANGED <<form, prs, idx, text, data, images, product, products>>

PptxNext ==
    \/ Upload
    \/ ReadText
    \/ ReadImages
    \/ ParseText
    \/ BuildProduct
    \/ AppendProduct
    \/ Return

PptxSpec == PptxInit /\ [][PptxNext]_vars

(***************************************************************************)
(* Properties                                                              *)
(***************************************************************************)
Returned == pc = "done"

FirstLine == Split(text)[1]

\* str begins, in any letter case, with one of the words
BeginsWithAny(str, words) == \E w \in words : StartsWithNoCase(str, w)

HasLineBreak(str) == \E i \in 1..Len(str) : SubSeq(str, i, i) = "\n"

Fields ==
    {"name", "description", "price", "stock", "sku", "dimensions", "material", "specifications"}

\* C1: the returned mapping has exactly the eight fields, texts as texts and
\* numbers as numbers, whatever the text; the empty text returns the defaults,
\* and no call ends in an exception.
C1_AllFieldsTyped ==
    /\ pc # "raised"
    /\ Returned =>
          /\ DOMAIN data = Fields
          /\ \A f \in {"name", "description", "sku", "dimensions", "material", "specifications"} :
                data[f] \in STRING
          /\ data.price \in Nat
          /\ data.stock \in Nat
          /\ text = "" =>
                /\ \A f \in {"name", "description", "sku", "dimensions", "material", "specifications"} :
                      data[f] = ""
                /\ data.price = 0
                /\ data.stock = 0

C1_Witness == Returned /\ text = ""

\* specifications as the claim words it, case by case
SpecificationsFor(dims, mat) ==
    IF dims # "" /\ mat # "" THEN "Dimensions: " \o dims \o "; Material: " \o mat
    ELSE IF dims # "" THEN "Dimensions: " \o dims
    ELSE IF mat # "" THEN "Material: " \o mat
    ELSE ""

\* C2: the returned specifications is determined by the returned dimensions
\* and material: "Dimensions: d; Material: m", one of the two parts, or empty.
C2_SpecificationsDerived ==
    Returned => data.specifications = SpecificationsFor(data.dimensions, data.material)

C2_Witness == Returned /\ data.dimensions # "" /\ data.material # ""

NameLabels == {"price", "sku", "size", "material", "stock", "desc"}

\* the condition of C3 on a line
QualifiesAsName(line) ==
    Len(line) > 3 /\ Len(line) < 100 /\ ~BeginsWithAny(line, NameLabels)

\* C3 as claimed: name is empty or the first line, and non-empty exactly when
\* the first line is 4..99 characters long and begins with none of the labels.
C3_Original ==
    Returned =>
       /\ data.name \in {"", FirstLine}
       /\ data.name # "" <=> QualifiesAsName(FirstLine)

\* C3 amended: name is empty or the first line with its surrounding white
\* space removed, and non-empty exactly when that trimmed line is 4..99
\* characters long and begins with none of the labels.
C3_NameIsTrimmedFirstLine ==
    Returned =>
       /\ data.name \in {"", Strip(FirstLine)}
       /\ data.name # "" <=> QualifiesAsName(Strip(FirstLine))

C3_Witness == Returned /\ data.name # "" /\ data.name # FirstLine


\* what pattern i of the price loop finds in t: whether it matches, and
\* whether its capture, commas removed, is a number
PriceFound(t, i) ==
    LET match == Search(price_patterns[i], Lower(t), FALSE)
        number == ToFloat(Remove(match.group1, ","))
    IN  [matched |-> match.ok, converts |-> match.ok /\ number.ok, val |-> number.val]

\* some price pattern matches t with a capture that is no number
PriceUnconvertible(t) ==
    \E i \in 1..Len(price_patterns) :
       LET found == PriceFound(t, i) IN found.matched /\ ~found.converts

\* the price of the first pattern, in order, whose capture is a number
FirstConvertedPrice(t) ==
    LET labeled == PriceFound(t, 1)
        bare == PriceFound(t, 2)
    IN  IF labeled.converts THEN labeled.val
        ELSE IF bare.converts THEN bare.val
        ELSE 0

\* C4: when a price pattern matches a capture that is no number, the call
\* still returns: the price is that of the first pattern whose capture
\* converts (0.0 if none does), and every other field is what the steps after
\* the price loop make of the text when the price loop has changed nothing.
C4_PriceFailureAbsorbed ==
    /\ pc # "raised"
    /\ Returned /\ PriceUnconvertible(text) =>
          /\ data.price = FirstConvertedPrice(text)
          /\ [data EXCEPT !.price = 0] = Run(text, Goto("sku", Defaults)).data

C4_Witness == Returned /\ PriceUnconvertible(text) /\ data.price > 0

\* C5 as claimed: the returned description is never longer than 500 characters.
C5_Original == Returned => Len(data.description) <= 500

\* every label of the labeled patterns of the extractor
PatternLabels ==
    {"price", "rate", "cost", "sku", "item code", "product code", "code", "size",
     "dimension", "measurement", "material", "made of", "stock", "quantity", "qty",
     "available", "desc"}

\* C6 as claimed: a first line that begins with a label of one of the labeled
\* patterns never becomes the name.
C6_Original == Returned /\ BeginsWithAny(FirstLine, PatternLabels) => data.name = ""

DescLabels == {"price", "sku", "size", "material", "stock"}

\* lines[:5] as a claim words it
FirstFive(lines) == [j \in 1..(IF Len(lines) < 5 THEN Len(lines) ELSE 5) |-> lines[j]]

\* the description C7 expects of the lines: the long unlabeled ones among the
\* first five, joined by one space, cut to 500 characters
JoinedEarlyLines(lines) ==
    LET kept == SelectSeq(FirstFive(lines),
                          LAMBDA l : Len(l) > 15 /\ ~BeginsWithAny(l, DescLabels))
    IN  Prefix(JoinWith(" ", kept), 500)

DescLabelMatches == Search(DescLabeled, text, TRUE).ok

\* C7 as claimed: without a desc label match, the description of a non-empty
\* text is the join of its qualifying early lines, for any number of lines.
C7_Original ==
    Returned /\ text # "" /\ ~DescLabelMatches =>
       data.description = JoinedEarlyLines(Split(text))

TrimmedLines == LET lines == Split(text) IN [j \in 1..Len(lines) |-> Strip(lines[j])]

\* C7 amended: without a desc label match, the description of a text of two
\* or more lines is the join of its qualifying early lines, each line trimmed
\* of surrounding white space before it is measured, tested and joined; the
\* description of a text of one line is empty.
C7_DescriptionFromEarlyLines ==
    Returned /\ ~DescLabelMatches =>
       data.description = IF Len(Split(text)) >= 2 THEN JoinedEarlyLines(TrimmedLines) ELSE ""

C7_Witness ==
    Returned /\ ~DescLabelMatches /\ Len(Split(text)) > 5 /\ data.description # ""

\* str is two or more capital letters followed by three or more digits
IsUpperCode(str) ==
    \E n \in 2..(Len(str) - 3) :
       /\ \A i \in 1..n : SubSeq(str, i, i) \in Range(UpperChars)
       /\ \A i \in (n + 1)..Len(str) : SubSeq(str, i, i) \in Digits

\* C8 as claimed: without a labeled sku match, sku is empty or a token of
\* capital letters and digits; lower case code-like tokens leave it empty.
C8_Original ==
    Returned /\ ~Search(SkuLabeled, text, TRUE).ok =>
       data.sku = "" \/ IsUpperCode(data.sku)

\* the capture of a labeled match lies in the line the label is in: no line
\* break from the start of the label to the end of the capture
CaptureOnLabelLine(pattern) ==
    LET match == Search(pattern, text, TRUE)
    IN  match.ok => ~HasLineBreak(SubSeq(text, match.start, match.ge - 1))

\* C9 as claimed: a labeled dimensions or material value is the rest of the
\* line of its label: no line break in it and nothing of a later line.
C9_Original ==
    Returned =>
       /\ ~HasLineBreak(data.dimensions) /\ CaptureOnLabelLine(DimLabeled)
       /\ ~HasLineBreak(data.material) /\ CaptureOnLabelLine(MaterialLabeled)

\* the second pattern of a loop is reached only when the first one ...
SecondPatternOnlyAfter(loop, first_failed) == pc = loop /\ idx >= 2 => first_failed

\* the field is the trimmed capture of the labeled pattern whenever it matches
LabeledWins(pattern, value) ==
    LET match == Search(pattern, text, TRUE)
    IN  match.ok => value = Strip(match.group1)

\* C10: the bare sku and dimensions patterns are consulted only when the
\* labeled pattern did not match, the bare price pattern only when the
\* labeled one gave no number; a matching labeled pattern decides sku and
\* dimensions, wherever a bare match is and even if its capture trims to
\* nothing.
C10_FirstMatchWins ==
    /\ SecondPatternOnlyAfter("sku", ~Search(SkuLabeled, text, TRUE).ok)
    /\ SecondPatternOnlyAfter("dimensions", ~Search(DimLabeled, text, TRUE).ok)
    /\ SecondPatternOnlyAfter("price", ~PriceFound(text, 1).converts)
    /\ Returned /\ text # "" =>
          /\ LabeledWins(SkuLabeled, data.sku)
          /\ LabeledWins(DimLabeled, data.dimensions)

C10_Witness ==
    /\ Returned
    /\ Search(DimLabeled, text, TRUE).ok
    /\ Search(DimBare, text, TRUE).ok
    /\ data.dimensions = ""

\* slide k of the deck carries at least one image
SlideHasImage(k) == \E j \in 1..Len(prs[k]) : prs[k][j].has_image

\* the name parse_product_text extracts from the text of slide k
ExtractedName(k) == parse_product_text(FullText(prs[k])).name

\* the name a product of slide k is to carry when `extracted` is the name taken
\* from the text of the slide
NameFor(extracted, k) ==
    IF extracted # "" THEN extracted
    ELSE IF SlideHasImage(k) THEN "Product from Slide " \o StrOf(k)
    ELSE "Product " \o StrOf(k)

SlideName(k) == NameFor(ExtractedName(k), k)

\* C11: while import_pptx runs without an exception, the slide loop has
\* appended exactly one product for each slide it has finished, in slide
\* order; each product carries a non-empty name, which is the extracted name
\* when there is one, else "Product from Slide N" when slide N has an image,
\* else "Product N"; the name-or-image filter keeps every product; and the
\* answer returns all the products with a total equal to the number of slides.
\* The names are looked at where the list has just changed (at the head of the
\* loop) and at the return.
C11_OneProductPerSlide ==
    /\ pc \in {"slide", "images", "parse", "build", "append"} => Len(products) = idx - 1
    /\ pc \in {"slide", "returned"} =>
          \A k \in 1..Len(products) : products[k].name # "" /\ products[k].name = SlideName(k)
    /\ pc = "append" => IsKept(product, images)
    /\ pc = "returned" =>
          /\ response.status = 200
          /\ response.products = products
          /\ Len(products) = Len(prs)
          /\ response.total = Len(prs)

\* a deck of several slides was answered, one slide without text or image
\* and one named after its image
C11_Witness ==
    /\ pc = "returned"
    /\ response.total >= 2
    /\ \E k \in 1..Len(prs) : prs[k] = <<>> /\ response.products[k].name = "Product " \o StrOf(k)
    /\ \E k \in 1..Len(prs) :
          response.products[k].name = "Product from Slide " \o StrOf(k)


====
